---------------------------- MODULE Spec2Model ----------------------------
(***************************************************************************)
(* A model of textual_click/introspect.py: the schema data classes, the    *)
(* recursive walk of introspect_click_app / process_command over a click   *)
(* command tree, and the parent-chain loop of CommandSchema.path_from_root.*)
(*                                                                         *)
(* Objects live in arenas.  Input commands are the entries of cmds, output *)
(* CommandSchema objects are the entries of heap; a reference is an index, *)
(* so that Python's "is" is equality of indices.  An optional value is a   *)
(* sequence of length at most one: None is <<>> and a value x is <<x>>.    *)
(* A dict is the sequence of its <<key, value>> items in insertion order.  *)
(***************************************************************************)
EXTENDS Integers, Sequences, FiniteSets, TLC

VARIABLES app,     \* app.commands: the top-level dict name -> command
          cmds,    \* the click command objects of the input tree
          heap,    \* the CommandSchema objects allocated so far
          stack,   \* the active process_command calls, innermost last
          data,    \* the local dict `data` of introspect_click_app
          ti,      \* position of the top-level loop in app.commands
          pc,      \* "walk", "done" (returned) or "failed" (raised)
          result,  \* the returned mapping: None before return / on raise
          calls,   \* history: <<command, schema>> per process_command call
          q        \* the running path_from_root evaluation

vars == <<app, cmds, heap, stack, data, ti, pc, result, calls, q>>

(***************************************************************************)
(* Bounds of the model.                                                    *)
(***************************************************************************)
MaxCmds == 3      \* commands in the input tree
MaxParams == 2    \* parameters declared on one command

None == <<>>
Some(x) == <<x>>

Last(s) == s[Len(s)]
Front(s) == SubSeq(s, 1, Len(s) - 1)

RECURSIVE Reverse(_)
Reverse(s) == IF s = <<>> THEN <<>> ELSE Append(Reverse(Tail(s)), Head(s))

SeqsUpTo(S, n) == UNION {[1..k -> S] : k \in 0..n}

Keys(d) == [i \in 1..Len(d) |-> d[i][1]]
Values(d) == [i \in 1..Len(d) |-> d[i][2]]


(***************************************************************************)
(* dict: d[k] = v keeps the position of an existing key, else appends.     *)
(***************************************************************************)
\* faulty variant: the assignment replaces the dict by one holding the new item only
DictSetAlone(d, k, v) == <<<<k, v>>>>

HasKey(d, k) == \E i \in 1..Len(d) : d[i][1] = k
DictSet(d, k, v) ==
    IF HasKey(d, k)
    THEN [i \in 1..Len(d) |-> IF d[i][1] = k THEN <<k, v>> ELSE d[i]]
    ELSE Append(d, <<k, v>>)

(***************************************************************************)
(* The input: click's object model as far as the walk reads it.            *)
(* A parameter is [kind, name, type, required, default, help]; kind is the *)
(* class the isinstance tests see: "Option" (click.Option), "Group" (a     *)
(* click.core.Group placed in params), "Argument" (click.Argument) or      *)
(* "Other" (any other click.Parameter subclass).  A type is what           *)
(* param.type.name, isinstance(param.type, click.Choice) and               *)
(* param.type.choices read: name is absent when evaluating param.type.name *)
(* finds no such attribute (a ParamType subclass that sets no name, or an  *)
(* object such as a plain click Group that has no type at all), isChoice   *)
(* says whether the type is a click.Choice, choices is its sequence.       *)
(***************************************************************************)
Kinds == {"Option", "Group", "Argument", "Other"}
ParamNames == {"p", "q"}
StringType == [name |-> Some("string"), isChoice |-> FALSE, choices |-> <<>>]
ChoiceType == [name |-> Some("choice"), isChoice |-> TRUE, choices |-> <<"y", "x">>]
NamelessType == [name |-> None, isChoice |-> FALSE, choices |-> <<>>]
Types == {StringType, ChoiceType, NamelessType}
Defaults == {None, Some("d")}

Param(k, n, t, d) ==
    [kind |-> k, name |-> n, type |-> t, default |-> d,
     required |-> (k = "Argument" /\ d = None),
     help |-> IF k = "Option" THEN Some("h") ELSE None]

ParamPool == {Param(k, n, t, d) : k \in Kinds, n \in ParamNames, t \in Types, d \in Defaults}

\* one parameter of every kind, and one whose type has no name
TreePool == {pa \in ParamPool : /\ pa.name = "p"
                                /\ pa.default = None
                                /\ \/ pa.type = StringType
                                   \/ pa.kind = "Option" /\ pa.type = NamelessType}

\* the key of the j-th command registered in a commands dict: unique within
\* the dict, not in sorted order, and used again in the dicts of other groups
KeyNames == <<"b", "a", "d", "c", "f", "e">>
KeyName(j) == KeyNames[j]

\* the commands dict of parent p (0: the application) under the shape par
Items(par, n, p) ==
    LET IsKid(i) == par[i] = p
        kids == SelectSeq([i \in 1..n |-> i], IsKid)
    IN  [j \in 1..Len(kids) |-> <<KeyName(j), kids[j]>>]

Shapes(n) == {par \in [1..n -> 0..n] : \A i \in 1..n : par[i] < i}

Command(par, n, grp, i, params) ==
    [isGroup  |-> grp[i],
     help     |-> IF grp[i] THEN None ELSE Some("doc"),
     callback |-> IF Items(par, n, i) # <<>> THEN None ELSE Some(i),
     params   |-> params,
     commands |-> Items(par, n, i)]

\* the state before the call, for a tree of n commands of which command f
\* (if any) declares the parameters pl
InitWith(n, par, grp, f, pl) ==
    /\ app = Items(par, n, 0)
    /\ cmds = [i \in 1..n |-> Command(par, n, grp, i, IF i = f THEN pl ELSE <<>>)]
    /\ heap = <<>>
    /\ stack = <<>>
    /\ data = <<>>
    /\ ti = 1
    /\ pc = "walk"
    /\ result = None
    /\ calls = <<>>
    /\ q = [pc |-> "idle", self |-> 0, node |-> 0, path |-> <<>>, ret |-> <<>>]

\* every tree of at most MaxCmds commands; at most one parameter in it
Init ==
    \E n \in 0..MaxCmds : \E par \in Shapes(n) : \E grp \in [1..n -> BOOLEAN] :
    \E f \in 0..n : \E pl \in {<<>>} \cup {<<pa>> : pa \in TreePool} :
        /\ \A i \in 1..n : Items(par, n, i) # <<>> => grp[i]
        /\ (f = 0) = (pl = <<>>)
        /\ InitWith(n, par, grp, f, pl)

\* a group with one leaf child; one of the two declares up to MaxParams
\* parameters of any kind
ParamInit ==
    \E f \in 1..2 : \E pl \in SeqsUpTo(ParamPool, MaxParams) :
        InitWith(2, <<0, 1>>, <<TRUE, FALSE>>, f, pl)

(***************************************************************************)
(* The data classes.  Fields not passed to a constructor take the          *)
(* dataclass default.                                                      *)
(***************************************************************************)
OptionSchema(name, type, default, required, help) ==
    [name |-> name, type |-> type, default |-> default, required |-> required,
     help |-> help, choices |-> None]

ArgumentSchema(name, type, required) ==
    [name |-> name, type |-> type, required |-> required,
     default |-> None, choices |-> None]

CommandSchema(name, function, docstring, options, arguments, subcommands, parent) ==
    [name |-> name, function |-> function, docstring |-> docstring,
     options |-> options, arguments |-> arguments,
     subcommands |-> subcommands, parent |-> parent]

(***************************************************************************)
(* process_command, piece by piece.                                        *)
(***************************************************************************)
\* faulty variant: the parent argument is not passed on to the schema
NewCommandSchemaNoParent(cmd_name, cmd_obj, parent) ==
    CommandSchema(cmd_name, cmds[cmd_obj].callback, cmds[cmd_obj].help,
                  <<>>, <<>>, <<>>, None)

\* cmd_data = CommandSchema(name=cmd_name, docstring=cmd_obj.help, ...)
NewCommandSchema(cmd_name, cmd_obj, parent) ==
    CommandSchema(cmd_name, cmds[cmd_obj].callback, cmds[cmd_obj].help,
                  <<>>, <<>>, <<>>, parent)

\* isinstance(param, (click.Option, click.core.Group))
IsOption(param) == param.kind \in {"Option", "Group"}

\* isinstance(param, click.Argument)
IsArgument(param) == param.kind = "Argument"

\* param.type.name raises AttributeError when the type has no name
TypeNameRaises(param) == param.type.name = None

OptionData(param) ==
    OptionSchema(param.name, param.type.name[1], param.default,
                 param.required, param.help)

\* faulty variant: the click.Choice test is left out
ArgumentDataNoChoices(param) ==
    ArgumentSchema(param.name, param.type.name[1], param.required)

ArgumentData(param) ==
    LET argument_data == ArgumentSchema(param.name, param.type.name[1], param.required)
    IN  IF param.type.isChoice
        THEN [argument_data EXCEPT !.choices = Some(param.type.choices)]
        ELSE argument_data

\* faulty variant: the new entry goes to the front of the list
ListPrepend(list, x) == <<x>> \o list

\* list.append
ListAppend(list, x) == Append(list, x)

\* faulty variant: the loop runs over the children twice
ChildItemsTwice(cmd_obj) == cmds[cmd_obj].commands \o cmds[cmd_obj].commands

\* cmd_obj.commands.items(), in the order the loop visits them
ChildItems(cmd_obj) == cmds[cmd_obj].commands

\* faulty variant: the parameter loop consumes cmd_obj.params (params.pop(0))
InputConsumed ==
    /\ app' = app
    /\ cmds' = IF stack # <<>> /\ cmds[Last(stack).cmd_obj].params # <<>>
               THEN [cmds EXCEPT ![Last(stack).cmd_obj].params = Tail(@)]
               ELSE cmds

\* the walk assigns to no attribute and no container of the input
InputUnchanged == UNCHANGED <<app, cmds>>

Frame(cmd_name, cmd_obj, cmd_data) ==
    [cmd_name |-> cmd_name, cmd_obj |-> cmd_obj, cmd_data |-> cmd_data,
     pi |-> 1, ci |-> 1]

top == Last(stack)
TopParams == cmds[top.cmd_obj].params
InParamLoop == pc = "walk" /\ stack # <<>> /\ top.pi <= Len(TopParams)
InChildLoop ==
    /\ pc = "walk" /\ stack # <<>> /\ top.pi > Len(TopParams)
    /\ cmds[top.cmd_obj].isGroup
    /\ top.ci <= Len(ChildItems(top.cmd_obj))
AtReturn ==
    /\ pc = "walk" /\ stack # <<>> /\ top.pi > Len(TopParams)
    /\ cmds[top.cmd_obj].isGroup => top.ci > Len(ChildItems(top.cmd_obj))

\* enter process_command(cmd_name, cmd_obj, parent): lines 70-78
Enter(cmd_name, cmd_obj, parent) ==
    /\ heap' = Append(heap, NewCommandSchema(cmd_name, cmd_obj, parent))
    /\ stack' = Append(stack, Frame(cmd_name, cmd_obj, Len(heap) + 1))
    /\ calls' = Append(calls, <<cmd_obj, Len(heap) + 1>>)

\* line 109, the call: process_command(CommandName(cmd_name), cmd_obj)
TopCall ==
    /\ pc = "walk" /\ stack = <<>> /\ ti <= Len(app)
    /\ Enter(app[ti][1], app[ti][2], None)
    /\ InputUnchanged
    /\ UNCHANGED <<data, ti, pc, result, q>>

\* lines 82-90: the parameter is an option
ParamOption ==
    /\ InParamLoop
    /\ LET param == TopParams[top.pi] IN
        /\ IsOption(param)
        /\ ~TypeNameRaises(param)
        /\ heap' = [heap EXCEPT ![top.cmd_data].options = ListAppend(@, OptionData(param))]
    /\ stack' = [stack EXCEPT ![Len(stack)].pi = @ + 1]
    /\ InputUnchanged
    /\ UNCHANGED <<data, ti, pc, result, calls, q>>

\* lines 91-97: the parameter is an argument
ParamArgument ==
    /\ InParamLoop
    /\ LET param == TopParams[top.pi] IN
        /\ ~IsOption(param)
        /\ IsArgument(param)
        /\ ~TypeNameRaises(param)
        /\ heap' = [heap EXCEPT ![top.cmd_data].arguments = ListAppend(@, ArgumentData(param))]
    /\ stack' = [stack EXCEPT ![Len(stack)].pi = @ + 1]
    /\ InputUnchanged
    /\ UNCHANGED <<data, ti, pc, result, calls, q>>

\* lines 82, 91: neither isinstance test holds; the loop goes on
ParamSkip ==
    /\ InParamLoop
    /\ LET param == TopParams[top.pi] IN
        /\ ~IsOption(param)
        /\ ~IsArgument(param)
    /\ stack' = [stack EXCEPT ![Len(stack)].pi = @ + 1]
    /\ InputUnchanged
    /\ UNCHANGED <<heap, data, ti, pc, result, calls, q>>

\* lines 85, 93: param.type.name raises; nothing catches it, so the
\* exception leaves every active call and introspect_click_app itself
ParamRaise ==
    /\ InParamLoop
    /\ LET param == TopParams[top.pi] IN
        /\ IsOption(param) \/ IsArgument(param)
        /\ TypeNameRaises(param)
    /\ stack' = <<>>
    /\ pc' = "failed"
    /\ InputUnchanged
    /\ UNCHANGED <<heap, data, ti, result, calls, q>>

\* lines 100-103, the call: process_command(name, subcmd_obj, parent=cmd_data)
SubCall ==
    /\ InChildLoop
    /\ LET item == ChildItems(top.cmd_obj)[top.ci] IN
        Enter(item[1], item[2], Some(top.cmd_data))
    /\ InputUnchanged
    /\ UNCHANGED <<data, ti, pc, result, q>>

\* line 105 into lines 101-103: cmd_data.subcommands[name] = <returned schema>
SubReturn ==
    /\ AtReturn /\ Len(stack) > 1
    /\ LET caller == stack[Len(stack) - 1] IN
        /\ heap' = [heap EXCEPT ![caller.cmd_data].subcommands =
                                    DictSet(@, top.cmd_name, top.cmd_data)]
        /\ stack' = [Front(stack) EXCEPT ![Len(stack) - 1].ci = @ + 1]
    /\ InputUnchanged
    /\ UNCHANGED <<data, ti, pc, result, calls, q>>

\* line 105 into line 109: data[name] = <returned schema>
TopReturn ==
    /\ AtReturn /\ Len(stack) = 1
    /\ data' = DictSet(data, top.cmd_name, top.cmd_data)
    /\ ti' = ti + 1
    /\ stack' = <<>>
    /\ InputUnchanged
    /\ UNCHANGED <<heap, pc, result, calls, q>>

\* line 111: return data
Finish ==
    /\ pc = "walk" /\ stack = <<>> /\ ti > Len(app)
    /\ pc' = "done"
    /\ result' = Some(data)
    /\ InputUnchanged
    /\ UNCHANGED <<heap, stack, data, ti, calls, q>>

(***************************************************************************)
(* CommandSchema.path_from_root, evaluated on a schema of a returned tree. *)
(***************************************************************************)
\* faulty variant: the path is returned as collected, queried node first
NotReversed(path) == path

\* list(reversed(path))
Reversed(path) == Reverse(path)

\* lines 41-42: node = self; path = [self]
PathStart ==
    /\ pc = "done" /\ q.pc # "loop"
    /\ \E self \in 1..Len(heap) :
        q' = [pc |-> "loop", self |-> self, node |-> self, path |-> <<self>>, ret |-> <<>>]
    /\ UNCHANGED <<app, cmds, heap, stack, data, ti, pc, result, calls>>

\* lines 43-45: while node.parent is not None: node = node.parent; append
PathStep ==
    /\ q.pc = "loop" /\ heap[q.node].parent # None
    /\ LET node == heap[q.node].parent[1] IN
        q' = [q EXCEPT !.node = node, !.path = ListAppend(@, node)]
    /\ UNCHANGED <<app, cmds, heap, stack, data, ti, pc, result, calls>>

\* line 46: return list(reversed(path))
PathReturn ==
    /\ q.pc = "loop" /\ heap[q.node].parent = None
    /\ q' = [q EXCEPT !.pc = "ret", !.ret = Reversed(q.path)]
    /\ UNCHANGED <<app, cmds, heap, stack, data, ti, pc, result, calls>>

Walk == \/ TopCall \/ ParamOption \/ ParamArgument \/ ParamSkip \/ ParamRaise
        \/ SubCall \/ SubReturn \/ TopReturn \/ Finish

PathLoop == PathStep \/ PathReturn

Next == Walk \/ PathStart \/ PathLoop

Spec == Init /\ [][Next]_vars
ParamSpec == ParamInit /\ [][Next]_vars

\* the walk and the property are synchronous, straight-line code: a call
\* that has a next statement executes it
FairSpec == Init /\ [][Next]_vars /\ WF_vars(Walk) /\ WF_vars(PathLoop)

(***************************************************************************)
(* Vocabulary of the properties.                                           *)
(***************************************************************************)
Returned == pc = "done"
Root == result[1]                      \* the returned mapping
Subs(s) == heap[s].subcommands
Range(f) == {f[i] : i \in DOMAIN f}

\* the schemas at nesting level k of the returned tree (top level: 0)
RECURSIVE Level(_)
Level(k) ==
    IF k = 0 THEN Range(Values(Root))
    ELSE UNION {Range(Values(Subs(s))) : s \in Level(k - 1)}

Reachable == UNION {Level(k) : k \in 0..Len(heap)}
Depth(s) == CHOOSE k \in 0..Len(heap) : s \in Level(k)

\* the commands at nesting level k of the input tree (top level: 0)
RECURSIVE CmdLevel(_)
CmdLevel(k) ==
    IF k = 0 THEN Range(Values(app))
    ELSE UNION {Range(Values(cmds[c].commands)) : c \in CmdLevel(k - 1)}

\* the number of levels of the input tree
Levels == Cardinality({k \in 0..Len(cmds) : CmdLevel(k) # {}})

Visits(c) == Cardinality({i \in 1..Len(calls) : calls[i][1] = c})

Named(param) == param.kind \in {"Option", "Group"}
Positional(param) == param.kind = "Argument"
Malformed(param) == param.type.name = None \/ ~(Named(param) \/ Positional(param))

(***************************************************************************)
(* C1: after the call returns, every top-level schema has no parent, and   *)
(* for every schema S of the returned tree and every key n of              *)
(* S.subcommands, S.subcommands[n].parent is S and S.subcommands[n].name   *)
(* is n; every schema below the top level is the value of exactly one      *)
(* subcommands entry of the whole tree.                                    *)
(***************************************************************************)
ParentLinks ==
    Returned =>
        /\ \A s \in Level(0) : heap[s].parent = None
        /\ \A s \in Reachable : \A j \in 1..Len(Subs(s)) :
              /\ heap[Subs(s)[j][2]].parent = Some(s)
              /\ heap[Subs(s)[j][2]].name = Subs(s)[j][1]
        /\ \A t \in Reachable \ Level(0) :
              Cardinality({e \in Reachable \X (1..Len(heap)) :
                              /\ e[2] <= Len(Subs(e[1]))
                              /\ Subs(e[1])[e[2]][2] = t}) = 1

\* a returned tree three levels deep
ParentLinksWitness ==
    /\ Returned
    /\ \E s \in Reachable : heap[s].parent # None /\ Subs(s) # <<>>

(***************************************************************************)
(* C2: path_from_root of a schema N of a returned tree starts at a schema  *)
(* without parent, ends at N, each later element has the element before it *)
(* as parent, and its length is the nesting level of N plus one.           *)
(***************************************************************************)
PathFromRoot ==
    q.pc = "ret" =>
        /\ heap[q.ret[1]].parent = None
        /\ Last(q.ret) = q.self
        /\ \A i \in 2..Len(q.ret) : heap[q.ret[i]].parent = Some(q.ret[i - 1])
        /\ Len(q.ret) = Depth(q.self) + 1

\* the path of a schema two levels below the top
PathFromRootWitness == q.pc = "ret" /\ Len(q.ret) >= 3

(***************************************************************************)
(* The schema the walk built for command c, and the parameters of c by     *)
(* class.                                                                  *)
(***************************************************************************)
Built == 1..Len(calls)
CmdOf(i) == cmds[calls[i][1]]
SchemaOf(i) == heap[calls[i][2]]
NamedOf(i) == SelectSeq(CmdOf(i).params, Named)
PositionalOf(i) == SelectSeq(CmdOf(i).params, Positional)

(***************************************************************************)
(* C3: after the call returns, for every command, whatever the kinds of    *)
(* its parameters, len(options) + len(arguments) of its schema is the      *)
(* number of parameters the command declares.                              *)
(***************************************************************************)
ParamsPartitioned ==
    Returned =>
        \A i \in Built :
            Len(SchemaOf(i).options) + Len(SchemaOf(i).arguments) = Len(CmdOf(i).params)

(***************************************************************************)
(* C4: after the call returns, the k-th ArgumentSchema of a command has    *)
(* choices present exactly when the type of the k-th positional parameter  *)
(* is a click.Choice, and then choices is the declared sequence.           *)
(***************************************************************************)
ArgumentChoices ==
    Returned =>
        \A i \in Built :
            /\ Len(SchemaOf(i).arguments) = Len(PositionalOf(i))
            /\ \A k \in 1..Len(PositionalOf(i)) :
                LET a == SchemaOf(i).arguments[k]
                    t == PositionalOf(i)[k].type
                IN  /\ (a.choices # None) <=> t.isChoice
                    /\ t.isChoice => a.choices = Some(t.choices)

\* a command with a Choice argument and a plain one
ArgumentChoicesWitness ==
    /\ Returned
    /\ \E i \in Built : \E k, l \in 1..Len(SchemaOf(i).arguments) :
          /\ SchemaOf(i).arguments[k].choices = Some(<<"y", "x">>)
          /\ SchemaOf(i).arguments[l].choices = None

(***************************************************************************)
(* C5: the returned mapping has the keys of app.commands, in order; the    *)
(* schema under a key is the one built for the command under that key; its *)
(* subcommands has the keys of the command's commands when the command is  *)
(* a group (empty for a group without children) and is empty for a leaf;   *)
(* and so on at every level.                                               *)
(***************************************************************************)
RECURSIVE Mirrors(_, _)
Mirrors(items, schemas) ==
    /\ Keys(schemas) = Keys(items)
    /\ \A j \in 1..Len(items) :
        LET c == items[j][2]
            s == schemas[j][2]
        IN  /\ <<c, s>> \in Range(calls)
            /\ heap[s].name = items[j][1]
            /\ heap[s].docstring = cmds[c].help
            /\ heap[s].function = cmds[c].callback
            /\ IF cmds[c].isGroup
               THEN Mirrors(cmds[c].commands, Subs(s))
               ELSE Subs(s) = <<>>

MirrorsNesting == Returned => Mirrors(app, Root)

\* a tree with a group that has children, a group without, and a leaf
MirrorsNestingWitness ==
    /\ Returned
    /\ \E c \in 1..Len(cmds) : cmds[c].isGroup /\ Len(cmds[c].commands) = 2
    /\ \E c \in 1..Len(cmds) : cmds[c].isGroup /\ cmds[c].commands = <<>>
    /\ \E c \in 1..Len(cmds) : ~cmds[c].isGroup

(***************************************************************************)
(* C6: after the call returns, the options of a command's schema are its   *)
(* option-style parameters (click.Option, or a Group among the params) and *)
(* the arguments are its positional parameters, each one for one in        *)
(* declaration order, equal names included.                                *)
(***************************************************************************)
DeclarationOrder ==
    Returned =>
        \A i \in Built :
            /\ Len(SchemaOf(i).options) = Len(NamedOf(i))
            /\ \A k \in 1..Len(NamedOf(i)) :
                LET o == SchemaOf(i).options[k]
                    pa == NamedOf(i)[k]
                IN  /\ o.name = pa.name
                    /\ Some(o.type) = pa.type.name
                    /\ o.required = pa.required
                    /\ o.default = pa.default
                    /\ o.help = pa.help
            /\ Len(SchemaOf(i).arguments) = Len(PositionalOf(i))
            /\ \A k \in 1..Len(PositionalOf(i)) :
                LET a == SchemaOf(i).arguments[k]
                    pa == PositionalOf(i)[k]
                IN  /\ a.name = pa.name
                    /\ Some(a.type) = pa.type.name
                    /\ a.required = pa.required

\* a command with two options of one name that differ
DeclarationOrderWitness ==
    /\ Returned
    /\ \E i \in Built :
          /\ Len(SchemaOf(i).options) = 2
          /\ SchemaOf(i).options[1].name = SchemaOf(i).options[2].name
          /\ SchemaOf(i).options[1] # SchemaOf(i).options[2]

(***************************************************************************)
(* C7: a call over a tree in which some parameter of some command is       *)
(* malformed (its type has no name, or it is neither an option nor a       *)
(* positional) never returns a mapping: it ends by raising.                *)
(***************************************************************************)
MalformedFails ==
    (/\ pc # "walk"
     /\ \E c \in 1..Len(cmds) : \E j \in 1..Len(cmds[c].params) :
            Malformed(cmds[c].params[j]))
    => pc = "failed" /\ result = None

(***************************************************************************)
(* C8: after the call returns, the default of the k-th ArgumentSchema of a *)
(* command is the declared default of its k-th positional parameter        *)
(* (absent only when none is declared), as for OptionSchema.               *)
(***************************************************************************)
ArgumentDefault ==
    Returned =>
        \A i \in Built :
            /\ Len(SchemaOf(i).arguments) = Len(PositionalOf(i))
            /\ \A k \in 1..Len(PositionalOf(i)) :
                SchemaOf(i).arguments[k].default = PositionalOf(i)[k].default

(***************************************************************************)
(* C9: no step of the walk, and no step after it, changes the input: the   *)
(* top-level mapping and every command's help, callback, parameter list    *)
(* and child mapping stay as they were before the call.                    *)
(***************************************************************************)
InputFrame == [][app' = app /\ cmds' = cmds]_vars

\* a walk that has read parameters and children and has returned
InputFrameWitness ==
    /\ Returned
    /\ \E i \in Built : SchemaOf(i).options # <<>> /\ SchemaOf(i).parent # None

(***************************************************************************)
(* C10: the walk ends (it returns, or raises on a type without a name);    *)
(* no command is visited twice and a returned walk has visited each        *)
(* command once; the number of active process_command calls never exceeds  *)
(* the number of levels of the input tree; and every started               *)
(* path_from_root evaluation returns.                                      *)
(***************************************************************************)
Terminates ==
    /\ <>(pc # "walk")
    /\ [](\A c \in 1..Len(cmds) : Visits(c) <= 1)
    /\ [](Returned => \A c \in 1..Len(cmds) : Visits(c) = 1)
    /\ [](Len(stack) <= Levels)
    /\ (q.pc = "loop") ~> (q.pc = "ret")

\* a returned walk over three levels, and a path evaluated on it
TerminatesWitness ==
    /\ Returned
    /\ Levels >= 3
    /\ q.pc = "ret" /\ Len(q.ret) >= 2

=============================================================================
